---- MODULE Spec2Model ----
(***************************************************************************)
(* A model of yamldiff (src/yamldiff/yamldiff.py): the YamlDiffer that      *)
(* compares two YAML streams document by document and returns a flat list   *)
(* of Diff records.                                                         *)
(*                                                                          *)
(* A YAML stream is given by the trees of its documents.  load_all gives    *)
(* every mapping and sequence the line/column data ruamel.yaml keeps in     *)
(* its `lc` attribute, for the stream written in block style: a "---" line  *)
(* before every document, one mapping entry or sequence item per line,      *)
(* nested mappings indented by two columns, empty collections as {} / [].   *)
(* A null and a plain scalar are Python's None and int: they carry no lc.   *)
(* A Python exception is the `exc` field of a call's outcome.               *)
(***************************************************************************)
EXTENDS Integers, Sequences, FiniteSets, TLC

VARIABLES left, right, skip_header_doc, pc, contents_l, contents_r, idx, diffs, exc, msg

vars == <<left, right, skip_header_doc, pc, contents_l, contents_r, idx, diffs, exc, msg>>

(***************************************************************************)
(* Bounds of the model.                                                     *)
(***************************************************************************)
MaxDocs == 2

MaxLen == 2

(***************************************************************************)
(* Trees of a YAML text.                                                    *)
(***************************************************************************)
Leaf(kind, v) == [kind |-> kind, v |-> v, keys |-> <<>>, kids |-> <<>>]

Null == Leaf("null", 0)

Scalar(v) == Leaf("scalar", v)

SeqOf(kids) == [kind |-> "sequence", v |-> 0, keys |-> <<>>, kids |-> kids]

MapOf(keys, kids) == [kind |-> "map", v |-> 0, keys |-> keys, kids |-> kids]

IsBlock(n) == n.kind \in {"map", "sequence"} /\ Len(n.kids) > 0

RECURSIVE Height(_)
RECURSIVE HeightFrom(_, _)
\* Lines the block-style text of a node takes.
Height(n) == IF IsBlock(n) THEN HeightFrom(n, 1) ELSE 1

\* Lines taken by the children i.. of a block collection; a mapping entry
\* whose value is a block collection takes a line for its key alone.
HeightFrom(n, i) ==
    IF i > Len(n.kids) THEN 0
    ELSE (IF n.kind = "map" /\ IsBlock(n.kids[i]) THEN 1 ELSE 0)
         + Height(n.kids[i]) + HeightFrom(n, i + 1)

(***************************************************************************)
(* The parsed values: Python None, int, CommentedSeq and CommentedMap.      *)
(* line/col are the 0-based lc.line/lc.col of a collection; data is         *)
(* lc.data: per item <<line, col>>, per key <<key line, key col, value      *)
(* line, value col>>; an empty collection has lc.data = None (<<>> here).   *)
(***************************************************************************)
PyNone == [kind |-> "null", v |-> 0, keys |-> <<>>, kids |-> <<>>,
           line |-> -1, col |-> -1, data |-> <<>>]

PyInt(v) == [kind |-> "scalar", v |-> v, keys |-> <<>>, kids |-> <<>>,
             line |-> -1, col |-> -1, data |-> <<>>]

RECURSIVE Construct(_, _, _)
\* The line of child i of a block collection that starts at `line`.
ChildLine(n, line, i) == line + HeightFrom(n, 1) - HeightFrom(n, i)

\* lc.data of child i of a block collection at (line, col).
ChildData(n, line, col, i) ==
    LET l == ChildLine(n, line, i) IN
    IF n.kind = "sequence" THEN <<l, col + 2>>
    ELSE IF ~IsBlock(n.kids[i]) THEN <<l, col, l, col + Len(n.keys[i]) + 2>>
    ELSE IF n.kids[i].kind = "map" THEN <<l, col, l + 1, col + 2>>
    ELSE <<l, col, l + 1, col>>

\* ruamel.yaml's constructor on the node whose start mark is (line, col).
Construct(n, line, col) ==
    IF n.kind = "null" THEN PyNone
    ELSE IF n.kind = "scalar" THEN PyInt(n.v)
    ELSE LET data == [i \in 1..Len(n.kids) |-> ChildData(n, line, col, i)] IN
         [kind |-> n.kind, v |-> 0, keys |-> n.keys,
          kids |-> [i \in 1..Len(n.kids) |->
                      LET d == data[i] IN
                      Construct(n.kids[i], d[Len(d) - 1], d[Len(d)])],
          line |-> line, col |-> col, data |-> data]

RECURSIVE load_from(_, _, _)
\* The documents i.. of a stream whose document i has its "---" at `line`.
load_from(docs, i, line) ==
    IF i > Len(docs) THEN <<>>
    ELSE <<Construct(docs[i], line + 1, 0)>>
         \o load_from(docs, i + 1, line + 1 + Height(docs[i]))

\* list(y.load_all(stream))
load_all(stream) == load_from(stream.docs, 1, 0)

(***************************************************************************)
(* DiffContext and Diff.                                                    *)
(***************************************************************************)
\* DiffContext(line, col); line and col are 1-based.
DiffContext(line, col) == [line |-> line, col |-> col]

\* A Diff's left_context / right_context when none is given (None).
NoContext == [line |-> 0, col |-> 0]

\* DiffContext.from_lc on a collection's lc (it has `line`).
from_lc(x) == DiffContext(x.line + 1, x.col + 1)

\* DiffContext.from_lc on the tuple lc.key(k), lc.value(k) or lc.item(i).
from_lc_tuple(t) == DiffContext(t[1] + 1, t[2] + 1)

Diff(l, r, left_context, right_context) ==
    [left |-> l, right |-> r,
     left_context |-> left_context, right_context |-> right_context]

\* The outcome of a call: the list it returns, or the exception it raises.
\* `bare` marks a return value that is a single Diff, not a list of them.
Returns(ds) == [exc |-> "", msg |-> "", diffs |-> ds, bare |-> FALSE]

ReturnsBare(d) == [exc |-> "", msg |-> "", diffs |-> <<d>>, bare |-> TRUE]

Raises(e, m) == [exc |-> e, msg |-> m, diffs |-> <<>>, bare |-> FALSE]

\* `a` then `b`, with `diffs += ...`: the first exception ends the call.
Then(a, b) ==
    IF a.exc # "" THEN a
    ELSE IF b.exc # "" THEN b
    ELSE Returns(a.diffs \o b.diffs)

(***************************************************************************)
(* NodeType and _node_type, on an interpreter that still has                 *)
(* collections.Mapping (Python 3.6 to 3.9, the versions setup.py names).    *)
(***************************************************************************)
node_type(x) ==
    IF x.kind = "null" THEN "null"
    ELSE IF x.kind = "map" THEN "map"
    ELSE IF x.kind = "sequence" THEN "sequence"
    ELSE "scalar"

(***************************************************************************)
(* str() of a parsed value: an int, None, a CommentedSeq (a list's repr)    *)
(* and a CommentedMap.  ruamel.yaml 0.18.16 (setup.py asks for >=0.15.66)   *)
(* prints a CommentedMap as a dict, {'key': value, ...}; the keys are       *)
(* Python strings and print in their repr, with quotes.                     *)
(***************************************************************************)
RECURSIVE str(_)
RECURSIVE str_items(_, _)
str(x) ==
    IF x.kind = "null" THEN "None"
    ELSE IF x.kind = "scalar" THEN ToString(x.v)
    ELSE IF x.kind = "sequence" THEN "[" \o str_items(x, 1) \o "]"
    ELSE "{" \o str_items(x, 1) \o "}"

str_items(x, i) ==
    IF i > Len(x.kids) THEN ""
    ELSE (IF i > 1 THEN ", " ELSE "")
         \o (IF x.kind = "map"
             THEN "'" \o x.keys[i] \o "': " \o str(x.kids[i])
             ELSE str(x.kids[i]))
         \o str_items(x, i + 1)

(***************************************************************************)
(* lc.key, lc.value, lc.item of ruamel.yaml's LineCol, as the differ calls  *)
(* them, each wrapped in DiffContext.from_lc.  lc.item(i) reads             *)
(* lc.data[i]: for a sequence that has no item i it raises TypeError when   *)
(* lc.data is None (an empty sequence) and KeyError(i) otherwise.           *)
(***************************************************************************)
KeyIndex(m, key) == CHOOSE i \in 1..Len(m.keys) : m.keys[i] = key

HasKey(m, key) == \E i \in 1..Len(m.keys) : m.keys[i] = key

Get(m, key) == m.kids[KeyIndex(m, key)]

lc_key(m, key) ==
    LET d == m.data[KeyIndex(m, key)] IN from_lc_tuple(<<d[1], d[2]>>)

lc_value(m, key) ==
    LET d == m.data[KeyIndex(m, key)] IN from_lc_tuple(<<d[3], d[4]>>)

lc_item_exc(s, i) ==
    IF Len(s.data) = 0 THEN "TypeError"
    ELSE IF i >= Len(s.data) THEN "KeyError"
    ELSE ""

\* The message of the exception lc.item(i) raises.
lc_item_msg(s, i) ==
    IF Len(s.data) = 0 THEN "'NoneType' object is not subscriptable"
    ELSE ToString(i)

lc_item(s, i) == from_lc_tuple(s.data[i + 1])

\* zip_longest's fill value: the item at 0-based index i, or None.
item_at(s, i) == IF i < Len(s.kids) THEN s.kids[i + 1] ELSE PyNone

\* `x is None`
IsNone(x) == x.kind = "null"

\* Whether x has an `lc` attribute: a CommentedMap or CommentedSeq has, None
\* and an int have not (reading it raises AttributeError).
HasLc(x) == x.kind \in {"map", "sequence"}

\* type(x).__name__ of a value without lc.
type_name(x) == IF x.kind = "null" THEN "NoneType" ELSE "int"

\* Reading x.lc of a value that has none.
NoLc(x) == Raises("AttributeError",
                  "'" \o type_name(x) \o "' object has no attribute 'lc'")

Max(a, b) == IF a >= b THEN a ELSE b

(***************************************************************************)
(* _diff_yaml_maps and _diff_yaml_lists.                                    *)
(***************************************************************************)
RECURSIVE diff_yaml_maps(_, _)
RECURSIVE diff_yaml_lists(_, _)
RECURSIVE maps_left_loop(_, _, _)
RECURSIVE lists_loop(_, _, _)

\* The body of `for key, value in left.items()` for one key.
maps_left_key(l, r, key) ==
    LET value == Get(l, key) IN
    IF ~HasKey(r, key)
    THEN Returns(<<Diff(key, "<missing key>", lc_key(l, key), from_lc(r))>>)
    ELSE LET type_l == node_type(Get(l, key))
             type_r == node_type(Get(r, key))
         IN IF type_l = type_r
            THEN IF type_l = "null" THEN Returns(<<>>)
                 ELSE IF type_l = "sequence" THEN diff_yaml_lists(value, Get(r, key))
                 ELSE IF type_l = "map" THEN diff_yaml_maps(value, Get(r, key))
                 ELSE IF value.v # Get(r, key).v
                      THEN Returns(<<Diff(str(value), str(Get(r, key)),
                                          lc_value(l, key), lc_value(r, key))>>)
                      ELSE Returns(<<>>)
            ELSE Returns(<<Diff("<node of type " \o type_l \o "> " \o key,
                                "<node of type " \o type_r \o "> " \o key,
                                lc_value(l, key), lc_value(r, key))>>)

maps_left_loop(l, r, i) ==
    IF i > Len(l.keys) THEN Returns(<<>>)
    ELSE Then(maps_left_key(l, r, l.keys[i]), maps_left_loop(l, r, i + 1))

\* The body of `for key, value in right.items()` for one key.
maps_right_key(l, r, key) ==
    IF ~HasKey(l, key)
    THEN <<Diff("<missing key>", key, from_lc(l), lc_key(r, key))>>
    ELSE <<>>

RECURSIVE maps_right_loop(_, _, _)
maps_right_loop(l, r, i) ==
    IF i > Len(r.keys) THEN <<>>
    ELSE maps_right_key(l, r, r.keys[i]) \o maps_right_loop(l, r, i + 1)

\* _diff_yaml_maps with its two loops exchanged: the right-only keys first.
diff_yaml_maps_right_first(l, r) ==
    Then(Returns(maps_right_loop(l, r, 1)), maps_left_loop(l, r, 1))

diff_yaml_maps(l, r) ==
    Then(maps_left_loop(l, r, 1), Returns(maps_right_loop(l, r, 1)))

\* The body of the zip_longest loop for the 0-based index i.
lists_item(l, r, i) ==
    LET item_l == item_at(l, i)
        item_r == item_at(r, i)
    IN IF IsNone(item_l)
       THEN IF lc_item_exc(r, i) # ""
            THEN Raises(lc_item_exc(r, i), lc_item_msg(r, i))
            ELSE Returns(<<Diff("<missing item>", str(item_r),
                                from_lc(l), lc_item(r, i))>>)
       ELSE IF IsNone(item_r)
       THEN Returns(<<Diff(str(item_l), "<missing item>",
                           lc_item(l, i), from_lc(r))>>)
       ELSE LET type_l == node_type(item_l)
                type_r == node_type(item_r)
            IN IF type_l = type_r
               THEN IF type_l = "null" THEN Returns(<<>>)
                    ELSE IF type_l = "sequence" THEN diff_yaml_lists(item_l, item_r)
                    ELSE IF type_l = "map" THEN diff_yaml_maps(item_l, item_r)
                    ELSE IF item_l.v # item_r.v
                         THEN Returns(<<Diff(str(item_l), str(item_r),
                                             lc_item(l, i), lc_item(r, i))>>)
                         ELSE Returns(<<>>)
               ELSE Returns(<<Diff("<node of type " \o type_l \o ">",
                                   "<node of type " \o type_r \o ">",
                                   lc_item(l, i), lc_item(r, i))>>)

lists_loop(l, r, i) ==
    IF i >= Max(Len(l.kids), Len(r.kids)) THEN Returns(<<>>)
    ELSE Then(lists_item(l, r, i), lists_loop(l, r, i + 1))

diff_yaml_lists(l, r) == lists_loop(l, r, 0)

(***************************************************************************)
(* diff_yaml_docs.                                                          *)
(***************************************************************************)
diff_yaml_docs(l, r) ==
    LET type_l == node_type(l)
        type_r == node_type(r)
    IN IF type_l = type_r
       THEN IF type_l = "map" THEN diff_yaml_maps(l, r)
            ELSE IF type_l = "sequence" THEN diff_yaml_lists(l, r)
            ELSE Raises("DiffError", "Unknown YAML root node type")
       ELSE IF type_l # "null" /\ ~HasLc(l) THEN NoLc(l)
       ELSE IF type_r # "null" /\ ~HasLc(r) THEN NoLc(r)
       ELSE ReturnsBare(Diff("<top-level node of type " \o type_l \o ">",
                             "<top-level node of type " \o type_r \o ">",
                             IF type_l # "null" THEN from_lc(l) ELSE NoContext,
                             IF type_r # "null" THEN from_lc(r) ELSE NoContext))

(***************************************************************************)
(* diff_yaml_streams: try_load, and the loop over the documents.            *)
(***************************************************************************)
Loaded(contents) == [exc |-> "", msg |-> "", contents |-> contents]

LoadFails(e, m) == [exc |-> e, msg |-> m, contents |-> <<>>]

\* The stream parses: load_all raises nothing.
Parses(stream) == stream.error.type = ""

\* stream.name if hasattr(stream, 'name') else side_name
stream_name(stream, side_name) ==
    IF stream.has_name THEN stream.name ELSE side_name

\* The except clause: a MarkedYAMLError becomes a DiffError that names the
\* stream and the place (1-based) of the problem; any other exception of
\* the parser is not caught and leaves try_load as it is.
load_error(stream, side_name) ==
    LET e == stream.error IN
    IF e.marked
    THEN LoadFails("DiffError",
                   "Error parsing YAML stream \"" \o stream_name(stream, side_name)
                   \o "\":\n" \o ToString(e.line + 1) \o ":" \o ToString(e.column + 1)
                   \o " " \o e.context \o ": " \o e.problem)
    ELSE LoadFails(e.type, e.text)

\* try_load without `contents = contents[1:]`: the header is checked for
\* and kept.
try_load_keeps_header(stream, side_name, skip) ==
    IF ~Parses(stream) THEN load_error(stream, side_name)
    ELSE LET contents == load_all(stream) IN
         IF skip /\ Len(contents) < 2
         THEN LoadFails("DiffError",
                        "Cannot skip header: no header YAML document found")
         ELSE Loaded(contents)

\* try_load(stream, side_name)
try_load(stream, side_name, skip) ==
    IF ~Parses(stream) THEN load_error(stream, side_name)
    ELSE LET contents == load_all(stream) IN
         IF skip
         THEN IF Len(contents) < 2
              THEN LoadFails("DiffError",
                             "Cannot skip header: no header YAML document found")
              ELSE Loaded(Tail(contents))
         ELSE Loaded(contents)

\* The document at 0-based index i, or zip_longest's fill value None.
doc_at(contents, i) == IF i < Len(contents) THEN contents[i + 1] ELSE PyNone

\* The body of the loop over the documents for the 0-based index i.
docs_item(cl, cr, i) ==
    LET doc_l == doc_at(cl, i)
        doc_r == doc_at(cr, i)
    IN IF IsNone(doc_l)
       THEN IF ~HasLc(doc_r) THEN NoLc(doc_r)
            ELSE Returns(<<Diff("<no document>",
                                "<YAML document #" \o ToString(i + 1) \o ">",
                                NoContext, from_lc(doc_r))>>)
       ELSE IF IsNone(doc_r)
       THEN IF ~HasLc(doc_l) THEN NoLc(doc_l)
            ELSE Returns(<<Diff("<YAML document #" \o ToString(i + 1) \o ">",
                                "<no document>",
                                from_lc(doc_l), NoContext)>>)
       ELSE LET r == diff_yaml_docs(doc_l, doc_r) IN
            IF r.exc = "" /\ r.bare
            THEN Raises("TypeError", "'Diff' object is not iterable")
            ELSE r

RECURSIVE docs_loop(_, _, _)
docs_loop(cl, cr, i) ==
    IF i >= Max(Len(cl), Len(cr)) THEN Returns(<<>>)
    ELSE Then(docs_item(cl, cr, i), docs_loop(cl, cr, i + 1))

\* The whole call, as a function of its arguments.
diff_yaml_streams(l, r, skip) ==
    LET tl == try_load(l, "left", skip) IN
    IF tl.exc # "" THEN Raises(tl.exc, tl.msg)
    ELSE LET tr == try_load(r, "right", skip) IN
         IF tr.exc # "" THEN Raises(tr.exc, tr.msg)
         ELSE docs_loop(tl.contents, tr.contents, 0)

(***************************************************************************)
(* The inputs: YAML streams.                                                *)
(***************************************************************************)
\* No exception of the parser.
NoError ==
    [type |-> "", marked |-> FALSE, line |-> 0, column |-> 0,
     context |-> "", problem |-> "", text |-> ""]

\* The MarkedYAMLError (a ParserError) of the text 'a: [1\n': problem_mark
\* is 0-based.
FlowSequenceError ==
    [type |-> "ParserError", marked |-> TRUE, line |-> 1, column |-> 0,
     context |-> "while parsing a flow sequence",
     problem |-> "expected ',' or ']', but got '<stream end>'", text |-> ""]

\* The ReaderError of the text 'a: \x00\n': not a MarkedYAMLError.
ReaderError ==
    [type |-> "ReaderError", marked |-> FALSE, line |-> 0, column |-> 0,
     context |-> "", problem |-> "",
     text |-> "unacceptable character #x0000: special characters are not allowed\n"
              \o "  in \"<unicode string>\", position 3"]

\* A well-formed stream of the given documents, given as a str.
Stream(docs) == [docs |-> docs, has_name |-> FALSE, name |-> "", error |-> NoError]

\* A str the parser rejects with the exception e.
Malformed(e) == [docs |-> <<>>, has_name |-> FALSE, name |-> "", error |-> e]

\* A file object (it has a name) whose text the parser rejects.
MalformedFile(name, e) == [docs |-> <<>>, has_name |-> TRUE, name |-> name, error |-> e]

\* The streams that do not parse.
BadStreams ==
    {Malformed(FlowSequenceError), Malformed(ReaderError),
     MalformedFile("left.yaml", FlowSequenceError)}

\* The sequences over S of length at most n.
SeqsUpTo(S, n) == UNION {[1..k -> S] : k \in 0..n}

Keys == {"a", "b"}

\* The sequences of distinct keys of length at most n.
KeySeqs(n) ==
    {ks \in SeqsUpTo(Keys, n) : \A i, j \in 1..Len(ks) : i # j => ks[i] # ks[j]}

\* The sequences and mappings of at most n children drawn from S.
Collections(S, n) ==
    {SeqOf(kids) : kids \in SeqsUpTo(S, n)}
    \cup UNION {{MapOf(ks, kids) : kids \in [1..Len(ks) -> S]} : ks \in KeySeqs(n)}

\* The sequences and mappings of exactly one child drawn from S.
Singletons(S) == {c \in Collections(S, 1) : Len(c.kids) = 1}

\* null and two scalars: the differ only tests scalars for equality.
Leaves == {Null, Scalar(1), Scalar(2)}

\* The documents of the tree comparisons: collections of at most MaxLen
\* children, each a leaf or a collection of one scalar.
TreeDocs == Collections(Leaves \cup Singletons({Scalar(1)}), MaxLen)

\* The documents of the multi-document streams.
StreamDocs ==
    {Null, Scalar(1), SeqOf(<<Scalar(1)>>),
     MapOf(<<"a">>, <<SeqOf(<<Null>>)>>),
     MapOf(<<"a">>, <<Scalar(1)>>), MapOf(<<"a">>, <<Scalar(2)>>)}

\* Streams of at most MaxDocs documents, and the streams that do not parse.
Streams == {Stream(docs) : docs \in SeqsUpTo(StreamDocs, MaxDocs)} \cup BadStreams

\* Streams of one document.
TreeStreams == {Stream(<<d>>) : d \in TreeDocs}

(***************************************************************************)
(* One call of diff_yaml_streams(left, right, skip_header_doc), step by     *)
(* step: pc is the place in the function.                                   *)
(***************************************************************************)
Start ==
    /\ pc = "load_l"
    /\ contents_l = <<>>
    /\ contents_r = <<>>
    /\ idx = 0
    /\ diffs = <<>>
    /\ exc = ""
    /\ msg = ""

\* Two multi-document streams with or without skip_header_doc, or two
\* single-document streams compared as they are.
Init ==
    /\ \/ /\ left \in Streams
          /\ right \in Streams
          /\ skip_header_doc \in BOOLEAN
       \/ /\ left \in TreeStreams
          /\ right \in TreeStreams
          /\ skip_header_doc = FALSE
    /\ Start

\* contents_l = try_load(left, 'left')
LoadLeft ==
    /\ pc = "load_l"
    /\ LET r == try_load(left, "left", skip_header_doc) IN
       /\ contents_l' = r.contents
       /\ exc' = r.exc
       /\ msg' = r.msg
       /\ pc' = IF r.exc # "" THEN "raised" ELSE "load_r"
    /\ UNCHANGED <<left, right, skip_header_doc, contents_r, idx, diffs>>

\* contents_r = try_load(right, 'right')
LoadRight ==
    /\ pc = "load_r"
    /\ LET r == try_load(right, "right", skip_header_doc) IN
       /\ contents_r' = r.contents
       /\ exc' = r.exc
       /\ msg' = r.msg
       /\ pc' = IF r.exc # "" THEN "raised" ELSE "loop"
    /\ UNCHANGED <<left, right, skip_header_doc, contents_l, idx, diffs>>

\* One iteration of the loop over the documents.
CompareDocs ==
    /\ pc = "loop"
    /\ idx < Max(Len(contents_l), Len(contents_r))
    /\ LET r == docs_item(contents_l, contents_r, idx) IN
       /\ diffs' = IF r.exc # "" THEN diffs ELSE diffs \o r.diffs
       /\ exc' = r.exc
       /\ msg' = r.msg
       /\ pc' = IF r.exc # "" THEN "raised" ELSE "loop"
       /\ idx' = IF r.exc # "" THEN idx ELSE idx + 1
    /\ UNCHANGED <<left, right, skip_header_doc, contents_l, contents_r>>

\* return diffs
Return ==
    /\ pc = "loop"
    /\ idx >= Max(Len(contents_l), Len(contents_r))
    /\ pc' = "done"
    /\ UNCHANGED <<left, right, skip_header_doc, contents_l, contents_r, idx, diffs, exc, msg>>

Next == LoadLeft \/ LoadRight \/ CompareDocs \/ Return

Spec == Init /\ [][Next]_vars

\* The step-by-step call ends as the function says.
AgreesWithFunction ==
    pc \in {"done", "raised"} =>
        LET r == diff_yaml_streams(left, right, skip_header_doc) IN
        /\ r.exc = exc /\ r.msg = msg
        /\ (pc = "done" => r.diffs = diffs)


(***************************************************************************)
(* Vocabulary of the claims.                                                *)
(***************************************************************************)
\* The call has returned or raised.
Ended == pc \in {"done", "raised"}

\* Both streams parse.
BothParse == Parses(left) /\ Parses(right)

\* One document on each side, compared as it is.
Single ==
    /\ BothParse
    /\ ~skip_header_doc
    /\ Len(left.docs) = 1
    /\ Len(right.docs) = 1

\* Both single documents are of the given kind.
SingleOf(kind) ==
    /\ Single
    /\ left.docs[1].kind = kind
    /\ right.docs[1].kind = kind

\* The single documents as parsed.
DocL == Head(load_all(left))

DocR == Head(load_all(right))

Min(a, b) == IF a <= b THEN a ELSE b

KeySet(m) == {m.keys[i] : i \in 1..Len(m.keys)}

\* The 1-based source lines child i of collection c takes (its entry in a
\* mapping, its item in a sequence).
ChildLines(c, i) ==
    LET first == c.data[i][1] + 1
        last == IF i < Len(c.data) THEN c.data[i + 1][1] ELSE c.line + Height(c)
    IN first..last

\* The records of the result.
Records == {diffs[j] : j \in 1..Len(diffs)}

\* How many records of the result satisfy P.
Count(P(_)) == Cardinality({j \in 1..Len(diffs) : P(diffs[j])})

\* C1: Identity.  Comparing a valid stream with itself (with a header to
\* skip when skip_header_doc is set) completes without error and returns
\* the empty list.
C1_Identity ==
    (/\ Ended
     /\ left = right
     /\ Parses(left)
     /\ skip_header_doc => Len(left.docs) >= 2)
    => (pc = "done" /\ diffs = <<>>)

\* C3: Two documents of the same non-container kind are compared without
\* failure: equal scalars and two nulls give no record, unequal scalars
\* give one record, and "Unknown YAML root node type" is never raised.
C3_SameKindDocuments ==
    (Ended /\ (SingleOf("scalar") \/ SingleOf("null")))
    => /\ pc = "done"
       /\ msg # "Unknown YAML root node type"
       /\ Len(diffs) = (IF left.docs[1] = right.docs[1] THEN 0 ELSE 1)


\* The record d lies in child i of the left document: its left position is
\* on the lines of that child.
InLeftChild(d, i) == d.left_context.line \in ChildLines(DocL, i)

\* C2: Type-mismatch short-circuit.  Two nodes at the same path (the
\* document root, the value of a shared key, the item at a shared index)
\* that classify to different kinds make the comparison complete with
\* exactly one record for that path, naming both kinds.
C2_TypeMismatch ==
    (Ended /\ Single)
    => LET l == left.docs[1]
           r == right.docs[1]
       IN /\ l.kind # r.kind
             => /\ pc = "done"
                /\ diffs = <<Diff("<top-level node of type " \o l.kind \o ">",
                                  "<top-level node of type " \o r.kind \o ">",
                                  IF l.kind # "null" THEN from_lc(DocL) ELSE NoContext,
                                  IF r.kind # "null" THEN from_lc(DocR) ELSE NoContext)>>
          /\ (l.kind = "sequence" /\ r.kind = "sequence")
             => \A i \in 1..Min(Len(l.kids), Len(r.kids)) :
                  l.kids[i].kind # r.kids[i].kind
                  => /\ pc = "done"
                     /\ \E j \in 1..Len(diffs) :
                          /\ diffs[j].left = "<node of type " \o l.kids[i].kind \o ">"
                          /\ diffs[j].right = "<node of type " \o r.kids[i].kind \o ">"
                          /\ \A k \in 1..Len(diffs) : InLeftChild(diffs[k], i) => k = j
          /\ (l.kind = "map" /\ r.kind = "map")
             => \A i \in 1..Len(l.keys) :
                  (HasKey(r, l.keys[i]) /\ l.kids[i].kind # Get(r, l.keys[i]).kind)
                  => /\ pc = "done"
                     /\ \E j \in 1..Len(diffs) :
                          /\ diffs[j].left = "<node of type " \o l.kids[i].kind
                                                \o "> " \o l.keys[i]
                          /\ diffs[j].right = "<node of type " \o Get(r, l.keys[i]).kind
                                                 \o "> " \o l.keys[i]
                          /\ \A k \in 1..Len(diffs) : InLeftChild(diffs[k], i) => k = j

\* C4: Header-skip failure.  With skip_header_doc set and both sides
\* parsing, the call fails with a DiffError exactly when a side has fewer
\* than 2 documents; the error tells which side is deficient (so it differs
\* from the error of the call with the sides exchanged when only one side is
\* deficient), and no record is produced.
C4_HeaderSkipFailure ==
    (Ended /\ BothParse /\ skip_header_doc)
    => LET short_l == Len(left.docs) < 2
           short_r == Len(right.docs) < 2
       IN /\ (exc = "DiffError") <=> (short_l \/ short_r)
          /\ (short_l \/ short_r) => diffs = <<>>
          /\ (short_l # short_r)
             => msg # diff_yaml_streams(right, left, skip_header_doc).msg

\* A "missing item" record of the two single documents themselves.
IsMissingItem(d) ==
    \/ d.left = "<missing item>" /\ d.left_context = from_lc(DocL)
    \/ d.right = "<missing item>" /\ d.right_context = from_lc(DocR)

\* C5: Sequence alignment.  Comparing two sequences gives exactly one
\* "missing item" record per index from the shorter length up to the longer,
\* the placeholder on the shorter side, and no record for an index below
\* both lengths whose items are equal scalars or both null.
C5_SequenceAlignment ==
    (pc = "done" /\ SingleOf("sequence"))
    => LET l == left.docs[1]
           r == right.docs[1]
           lo == Min(Len(l.kids), Len(r.kids))
           hi == Max(Len(l.kids), Len(r.kids))
       IN /\ Count(IsMissingItem) = hi - lo
          /\ \A i \in (lo + 1)..hi :
               IF Len(l.kids) < Len(r.kids)
               THEN Diff("<missing item>", str(DocR.kids[i]),
                         from_lc(DocL), lc_item(DocR, i - 1)) \in Records
               ELSE Diff(str(DocL.kids[i]), "<missing item>",
                         lc_item(DocL, i - 1), from_lc(DocR)) \in Records
          /\ \A i \in 1..lo :
               (l.kids[i] = r.kids[i] /\ l.kids[i].kind \in {"scalar", "null"})
               => \A d \in Records :
                    /\ d.left_context # lc_item(DocL, i - 1)
                    /\ d.right_context # lc_item(DocR, i - 1)


\* The record for document number n missing on the right / on the left,
\* positioned at the start of the document `doc` that exists.
NoDocumentRight(n, doc) ==
    Diff("<YAML document #" \o ToString(n) \o ">", "<no document>",
         from_lc(doc), NoContext)

NoDocumentLeft(n, doc) ==
    Diff("<no document>", "<YAML document #" \o ToString(n) \o ">",
         NoContext, from_lc(doc))

\* The record d reports document number n as missing on a side.
IsNoDocument(d, n) ==
    \/ d.left = "<no document>" /\ d.right = "<YAML document #" \o ToString(n) \o ">"
    \/ d.right = "<no document>" /\ d.left = "<YAML document #" \o ToString(n) \o ">"

\* C6: Multi-document alignment.  After the header drop the documents are
\* paired by index; a number n at which only one side has a document gives
\* exactly one "<no document>" record, positioned at the start of the
\* document that exists, and a number at which both sides have a document
\* (a null document too) is never reported as a missing document.
C6_DocumentAlignment ==
    pc = "done"
    => \A n \in 1..Max(Len(contents_l), Len(contents_r)) :
         LET has_l == n <= Len(contents_l)
             has_r == n <= Len(contents_r)
         IN /\ (has_l /\ ~has_r)
               => /\ Cardinality({j \in 1..Len(diffs) : IsNoDocument(diffs[j], n)}) = 1
                  /\ NoDocumentRight(n, contents_l[n]) \in Records
            /\ (has_r /\ ~has_l)
               => /\ Cardinality({j \in 1..Len(diffs) : IsNoDocument(diffs[j], n)}) = 1
                  /\ NoDocumentLeft(n, contents_r[n]) \in Records
            /\ (has_l /\ has_r)
               => \A d \in Records : ~IsNoDocument(d, n)

\* C7: Symmetry of detection.  For two valid streams the call with the
\* sides exchanged fails exactly when this call fails, and returns a
\* non-empty list exactly when this call does.
C7_Symmetry ==
    (Ended /\ BothParse)
    => LET swapped == diff_yaml_streams(right, left, skip_header_doc)
       IN /\ (exc # "") <=> (swapped.exc # "")
          /\ (exc = "" /\ swapped.exc = "")
             => ((diffs # <<>>) <=> (swapped.diffs # <<>>))

\* C8: Mapping key coverage.  Comparing two mappings gives exactly one
\* "<missing key>" record per key of the left that the right lacks
\* (placeholder on the right), one per key of the right that the left lacks
\* (placeholder on the left), none for a key of both; when all shared keys
\* have equal values these are all the records.
C8_KeyCoverage ==
    (pc = "done" /\ SingleOf("map"))
    => LET only_l == KeySet(DocL) \ KeySet(DocR)
           only_r == KeySet(DocR) \ KeySet(DocL)
           both == KeySet(DocL) \cap KeySet(DocR)
           MissingRight(k) == Diff(k, "<missing key>", lc_key(DocL, k), from_lc(DocR))
           MissingLeft(k) == Diff("<missing key>", k, from_lc(DocL), lc_key(DocR, k))
       IN /\ \A k \in only_l :
               Cardinality({j \in 1..Len(diffs) : diffs[j] = MissingRight(k)}) = 1
          /\ \A k \in only_r :
               Cardinality({j \in 1..Len(diffs) : diffs[j] = MissingLeft(k)}) = 1
          /\ \A k \in both : \A d \in Records :
               /\ ~(d.right = "<missing key>" /\ d.left_context = lc_key(DocL, k))
               /\ ~(d.left = "<missing key>" /\ d.right_context = lc_key(DocR, k))
          /\ (\A k \in both : Get(left.docs[1], k) = Get(right.docs[1], k))
             => Len(diffs) = Cardinality(only_l) + Cardinality(only_r)


\* A position moved down by h lines; no position stays none.
ShiftContext(c, h) == IF c = NoContext THEN c ELSE [c EXCEPT !.line = @ + h]

\* The records ds with their left positions moved down by hl lines and
\* their right positions by hr lines.
Shifted(ds, hl, hr) ==
    [j \in 1..Len(ds) |->
        [ds[j] EXCEPT !.left_context = ShiftContext(@, hl),
                      !.right_context = ShiftContext(@, hr)]]

\* The case of C9: a header is skipped on both sides.
HeaderSkipped ==
    /\ Ended
    /\ BothParse
    /\ skip_header_doc
    /\ Len(left.docs) >= 2
    /\ Len(right.docs) >= 2

\* C9: Header-skip equivalence.  With skip_header_doc set and at least 2
\* documents on each side, the call ends as the call without
\* skip_header_doc on the two streams without their first documents does:
\* the same exception, or the same records in the same order, their
\* positions lower by the lines of the removed first document; the first
\* documents contribute nothing.
C9_HeaderSkipEquivalence ==
    HeaderSkipped
    => LET rest == diff_yaml_streams(Stream(Tail(left.docs)),
                                     Stream(Tail(right.docs)), FALSE)
           hl == 1 + Height(Head(left.docs))
           hr == 1 + Height(Head(right.docs))
       IN /\ exc = rest.exc
          /\ msg = rest.msg
          /\ pc = "done" => diffs = Shifted(rest.diffs, hl, hr)

\* A call that skipped two different headers of different heights and
\* returned records.
C9_Witness ==
    /\ HeaderSkipped
    /\ pc = "done"
    /\ diffs # <<>>
    /\ Head(left.docs) # Head(right.docs)
    /\ Height(Head(left.docs)) # Height(Head(right.docs))

\* The 1-based source lines of a parsed document that is a collection.
DocLines(doc) == (doc.line + 1)..(doc.line + Height(doc))

\* The number of the document (after the header drop) the record d lies
\* in, by its left position or else by its right position; 0 if in none.
OwnerDoc(d) ==
    LET side == IF d.left_context # NoContext THEN contents_l ELSE contents_r
        line == IF d.left_context # NoContext THEN d.left_context.line
                ELSE d.right_context.line
        Owns(n) == HasLc(side[n]) /\ line \in DocLines(side[n])
    IN IF \E n \in 1..Len(side) : Owns(n)
       THEN CHOOSE n \in 1..Len(side) : Owns(n)
       ELSE 0

\* The child of collection c on whose lines the position ctx lies; 0 if none.
ChildAt(c, ctx) ==
    IF \E i \in 1..Len(c.data) : ctx.line \in ChildLines(c, i)
    THEN CHOOSE i \in 1..Len(c.data) : ctx.line \in ChildLines(c, i)
    ELSE 0

\* The record d is the "<missing key>" record of the two single documents
\* for a key only the right one has.
IsRightOnlyKey(d) ==
    /\ d.left = "<missing key>"
    /\ d.left_context = from_lc(DocL)
    /\ HasKey(DocR, d.right)
    /\ ~HasKey(DocL, d.right)
    /\ d.right_context = lc_key(DocR, d.right)

\* The place of a record of two single mappings: the left key in whose
\* entry it lies, or, after all left keys, the right-only key it reports.
MapRank(d) ==
    IF IsRightOnlyKey(d) THEN Len(DocL.keys) + KeyIndex(DocR, d.right)
    ELSE ChildAt(DocL, d.left_context)

\* The place of a record of two single sequences: the index of the item in
\* which it lies (on the right when it reports an item the left lacks).
SeqRank(d) ==
    IF d.left = "<missing item>" /\ d.left_context = from_lc(DocL)
    THEN ChildAt(DocR, d.right_context)
    ELSE ChildAt(DocL, d.left_context)

\* C10: Record ordering.  The returned records are in document order;
\* those of two mappings are in the order of the left keys (a child's
\* records together at its key), then the right-only "<missing key>"
\* records in the order of the right keys; those of two sequences are in
\* index order (a child's records together at its index).
C10_RecordOrdering ==
    pc = "done"
    => /\ \A j, k \in 1..Len(diffs) :
            j < k => (1 <= OwnerDoc(diffs[j]) /\ OwnerDoc(diffs[j]) <= OwnerDoc(diffs[k]))
       /\ SingleOf("map")
          => \A j, k \in 1..Len(diffs) :
               j < k => /\ 1 <= MapRank(diffs[j])
                        /\ MapRank(diffs[j]) <= MapRank(diffs[k])
                        /\ IsRightOnlyKey(diffs[j]) => MapRank(diffs[j]) < MapRank(diffs[k])
       /\ SingleOf("sequence")
          => \A j, k \in 1..Len(diffs) :
               j < k => /\ 1 <= SeqRank(diffs[j])
                        /\ SeqRank(diffs[j]) <= SeqRank(diffs[k])

\* Two mappings whose records are those of a child (two of them), followed
\* by a right-only key.
C10_Witness ==
    /\ pc = "done"
    /\ SingleOf("map")
    /\ Len(diffs) >= 3
    /\ MapRank(diffs[1]) = MapRank(diffs[2])
    /\ IsRightOnlyKey(diffs[Len(diffs)])


====
